---- MODULE Spec2Model ----
(***************************************************************************)
(* The learning-objectives browser: three variants of one React component  *)
(* (LearningObjectivesInterface) that fetch the learning_objectives table  *)
(* once and derive the visible list by a client-side search / facet filter *)
(* / sort pipeline.                                                        *)
(*                                                                         *)
(*   "multi"    src/src/components/LearningObjectivesInterface.tsx         *)
(*              grade check boxes (selectedGrades), Algebra I -> 8th remap *)
(*   "dropdown" src/unnamed/part_000  three facet dropdowns, three sorts   *)
(*   "popover"  src/unnamed/part_001  three facet dropdowns, the priority  *)
(*              one disabled until grade and subject are chosen            *)
(*                                                                         *)
(* A JavaScript string is a sequence of one-character strings, so that     *)
(* toLowerCase, includes and localeCompare are computed, not assumed.      *)
(***************************************************************************)
EXTENDS Integers, Sequences, FiniteSets, TLC

\* ------------------------------------------------------------------ bounds

\* The largest number of rows the remote table returns.
MaxRows == 2

\* ----------------------------------------------------------------- strings

UpperCase == << "A", "B", "C", "D", "E", "F", "G", "H", "I", "J", "K", "L", "M",
                "N", "O", "P", "Q", "R", "S", "T", "U", "V", "W", "X", "Y", "Z" >>

LowerCase == << "a", "b", "c", "d", "e", "f", "g", "h", "i", "j", "k", "l", "m",
                "n", "o", "p", "q", "r", "s", "t", "u", "v", "w", "x", "y", "z" >>

\* The primary collation order of the characters the rows use: white space,
\* punctuation, digits, letters (case ignored at this level).
CollationOrder == << " ", ",", "0", "1", "2", "3", "4", "5", "6", "7", "8", "9" >>
                    \o LowerCase

\* null / undefined: the value of an absent column, no string at all.
NULL == << "null" >>

\* Every character a string of the model is made of.
Chars == { UpperCase[i] : i \in 1..Len(UpperCase) }
           \cup { CollationOrder[i] : i \in 1..Len(CollationOrder) }

IsUpper(c) == \E i \in 1..Len(UpperCase) : UpperCase[i] = c

\* The lower-case form of each character.
LowerOf ==
    [ c \in Chars |->
        IF IsUpper(c)
        THEN LowerCase[CHOOSE i \in 1..Len(UpperCase) : UpperCase[i] = c]
        ELSE c ]

\* String.prototype.toLowerCase, one character.
toLowerChar(c) == LowerOf[c]

\* String.prototype.toLowerCase
toLowerCase(s) == [i \in 1..Len(s) |-> toLowerChar(s[i])]

\* String.prototype.includes: scan s from the left for an occurrence of t.
RECURSIVE includes(_, _)
includes(s, t) ==
    IF Len(t) > Len(s) THEN FALSE
    ELSE IF SubSeq(s, 1, Len(t)) = t THEN TRUE
    ELSE includes(Tail(s), t)

\* Array.prototype.includes on an array of strings.
arrayIncludes(arr, v) == \E i \in 1..Len(arr) : arr[i] = v

\* v || "" : null, undefined and "" all become "".
OrEmpty(v) == IF v = NULL \/ v = << >> THEN << >> ELSE v

\* The primary weight of each character: its place in the collation order,
\* the same for both cases of a letter.
PrimaryWeightOf ==
    [ c \in Chars |->
        CHOOSE i \in 1..Len(CollationOrder) : CollationOrder[i] = LowerOf[c] ]

PrimaryWeight(c) == PrimaryWeightOf[c]

\* The tertiary weight of each character: lower case sorts before upper case
\* when the letters are the same.
TertiaryWeightOf == [ c \in Chars |-> IF IsUpper(c) THEN 1 ELSE 0 ]

TertiaryWeight(c) == TertiaryWeightOf[c]

\* Lexicographic comparison of two weight sequences: -1, 0 or 1.
RECURSIVE CompareWeights(_, _)
CompareWeights(k1, k2) ==
    IF k1 = << >> /\ k2 = << >> THEN 0
    ELSE IF k1 = << >> THEN -1
    ELSE IF k2 = << >> THEN 1
    ELSE IF Head(k1) < Head(k2) THEN -1
    ELSE IF Head(k1) > Head(k2) THEN 1
    ELSE CompareWeights(Tail(k1), Tail(k2))

\* String.prototype.localeCompare: the letters first, their case second.
localeCompare(s, t) ==
    LET p == CompareWeights([i \in 1..Len(s) |-> PrimaryWeight(s[i])],
                            [i \in 1..Len(t) |-> PrimaryWeight(t[i])])
    IN  IF p # 0 THEN p
        ELSE CompareWeights([i \in 1..Len(s) |-> TertiaryWeight(s[i])],
                            [i \in 1..Len(t) |-> TertiaryWeight(t[i])])

\* ------------------------------------------------------ program constants

ALL        == << "a", "l", "l" >>
EMPTY      == << >>
Grade6     == << "6", "t", "h" >>
Grade7     == << "7", "t", "h" >>
Grade8     == << "8", "t", "h" >>
AlgebraI   == << "A", "l", "g", "e", "b", "r", "a", " ", "I" >>

\* Fixed grade options - only 6th, 7th, 8th
availableGrades == << Grade6, Grade7, Grade8 >>

Variants == { "multi", "dropdown", "popover" }

\* ------------------------------------------------------------------- rows

\* The column values the remote table holds in this model, without the id:
\* every searchable field absent, empty or a text; a plain, a composite and a
\* white-space variant of the grade label; subjects with and without the
\* Algebra I remap; priorities that differ only in case.
RowTemplates ==
    { [ Objective |-> << "A", "d", "d" >>, Standard |-> << "M", "1" >>,
        PlainLanguage |-> NULL, GradeLevel |-> Grade7,
        Subject |-> << "M", "a", "t", "h" >>,
        PriorityLevel |-> << "H", "i", "g", "h" >> ],
      [ Objective |-> << "r", "e", "a", "d" >>, Standard |-> NULL,
        PlainLanguage |-> << "D", "a", "d" >>, GradeLevel |-> Grade6,
        Subject |-> << "E", "L", "A" >>,
        PriorityLevel |-> << "L", "o", "w" >> ],
      [ Objective |-> NULL, Standard |-> << "A", "1" >>,
        PlainLanguage |-> << >>, GradeLevel |-> Grade7,
        Subject |-> AlgebraI,
        PriorityLevel |-> << "H", "i", "g", "h" >> ],
      [ Objective |-> << "m", "a", "p" >>, Standard |-> << >>,
        PlainLanguage |-> NULL,
        GradeLevel |-> << "6", "t", "h", ",", "7", "t", "h", ",", "8", "t", "h" >>,
        Subject |-> << "M", "a", "t", "h" >>,
        PriorityLevel |-> NULL ],
      [ Objective |-> NULL, Standard |-> NULL,
        PlainLanguage |-> NULL, GradeLevel |-> << " ", "8", "t", "h" >>,
        Subject |-> << >>,
        PriorityLevel |-> << "h", "i", "g", "h" >> ] }

\* interface LearningObjective: a row of the table; the id is the primary key.
LearningObjective(id, t) == [ id |-> id ] @@ t

\* Every sequence of at most MaxRows rows, the ids unique.
RowSeqs ==
    UNION { { [ i \in 1..n |-> LearningObjective(i, ts[i]) ] :
                ts \in [ 1..n -> RowTemplates ] } : n \in 0..MaxRows }

\* What supabase.from('learning_objectives').select('*') resolves to:
\* { data: rows, error: null }, { data: null, error: null } or
\* { data: null, error: ... }.
Responses ==
    { [ kind |-> "rows", data |-> rows ] : rows \in RowSeqs }
      \cup { [ kind |-> "nodata", data |-> << >> ],
             [ kind |-> "error", data |-> << >> ] }

\* What the user types into the search box.
SearchInputs == { << >>, << "a", "D" >>, << "1" >>, << "z" >> }

\* ------------------------------------------------ the filter/sort pipeline

\* field?.toLowerCase().includes(searchTerm.toLowerCase())
fieldIncludes(field, term) ==
    field # NULL /\ includes(toLowerCase(field), toLowerCase(term))

\* matchesSearch with the search text not lower-cased.
matchesSearchRawTerm(obj, term) ==
    \/ term = EMPTY
    \/ obj.Objective # NULL /\ includes(toLowerCase(obj.Objective), term)
    \/ obj.Standard # NULL /\ includes(toLowerCase(obj.Standard), term)
    \/ obj.PlainLanguage # NULL /\ includes(toLowerCase(obj.PlainLanguage), term)

\* matchesSearch without the test for an empty search text.
matchesSearchNoEmptyTest(obj, term) ==
    \/ fieldIncludes(obj.Objective, term)
    \/ fieldIncludes(obj.Standard, term)
    \/ fieldIncludes(obj.PlainLanguage, term)

matchesSearch(obj, term) ==
    \/ term = EMPTY
    \/ fieldIncludes(obj.Objective, term)
    \/ fieldIncludes(obj.Standard, term)
    \/ fieldIncludes(obj.PlainLanguage, term)

\* objectiveGrade without the remap.
objectiveGradeStored(v, obj) == obj.GradeLevel

\* Map Algebra I to 8th grade for filtering (the multi-select variant only).
objectiveGrade(v, obj) ==
    IF v = "multi" /\ obj.Subject = AlgebraI THEN Grade8
    ELSE obj.GradeLevel

\* matchesGrade with an empty selection selecting nothing.
matchesGradeNoneSelected(v, obj, grade, grades) ==
    IF v = "multi"
    THEN arrayIncludes(grades, objectiveGrade(v, obj))
    ELSE grade = ALL \/ grade = EMPTY \/ obj.GradeLevel = grade

\* matchesGrade accepting a stored label that names a selected grade.
matchesGradeNamed(v, obj, grade, grades) ==
    IF v = "multi"
    THEN Len(grades) = 0
           \/ \E i \in 1..Len(grades) :
                 includes(objectiveGrade(v, obj), grades[i])
    ELSE grade = ALL \/ grade = EMPTY \/ obj.GradeLevel = grade

matchesGrade(v, obj, grade, grades) ==
    IF v = "multi"
    THEN Len(grades) = 0
           \/ arrayIncludes(grades, objectiveGrade(v, obj))
    ELSE grade = ALL \/ grade = EMPTY \/ obj.GradeLevel = grade

matchesSubject(obj, subject) ==
    subject = ALL \/ subject = EMPTY \/ obj.Subject = subject

\* matchesPriority comparing without regard to case.
matchesPriorityAnyCase(obj, priority) ==
    priority = ALL \/ priority = EMPTY
        \/ (obj.PriorityLevel # NULL
              /\ toLowerCase(obj.PriorityLevel) = toLowerCase(priority))

matchesPriority(obj, priority) ==
    priority = ALL \/ priority = EMPTY
        \/ obj.PriorityLevel = priority

\* The callback with the last conjunction written as a disjunction.
filterCallbackOr(v, obj, term, grade, grades, subject, priority) ==
    \/ /\ matchesSearch(obj, term)
       /\ matchesGrade(v, obj, grade, grades)
       /\ matchesSubject(obj, subject)
    \/ matchesPriority(obj, priority)

\* The callback of objectives.filter.
filterCallback(v, obj, term, grade, grades, subject, priority) ==
    /\ matchesSearch(obj, term)
    /\ matchesGrade(v, obj, grade, grades)
    /\ matchesSubject(obj, subject)
    /\ matchesPriority(obj, priority)

\* Every variant offering the three keys.
SortKeysAllThree(v) == { "grade", "subject", "priority" }

\* The sort keys the variant's sort Select offers.
SortKeys(v) ==
    IF v = "dropdown" THEN { "grade", "subject", "priority" }
    ELSE { "subject", "priority" }

\* The comparator with its operands exchanged: a descending sort.
compareFnDescending(v, key, a, b) ==
    CASE key = "grade" /\ v = "dropdown" ->
           localeCompare(OrEmpty(b.GradeLevel), OrEmpty(a.GradeLevel))
      [] key = "subject" ->
           localeCompare(OrEmpty(b.Subject), OrEmpty(a.Subject))
      [] key = "priority" ->
           localeCompare(OrEmpty(b.PriorityLevel), OrEmpty(a.PriorityLevel))
      [] OTHER -> 0

\* The comparator handed to filtered.sort.
compareFn(v, key, a, b) ==
    CASE key = "grade" /\ v = "dropdown" ->
           localeCompare(OrEmpty(a.GradeLevel), OrEmpty(b.GradeLevel))
      [] key = "subject" ->
           localeCompare(OrEmpty(a.Subject), OrEmpty(b.Subject))
      [] key = "priority" ->
           localeCompare(OrEmpty(a.PriorityLevel), OrEmpty(b.PriorityLevel))
      [] OTHER -> 0

\* The insertion step of an unstable sort: x goes in front of its equals.
RECURSIVE insertUnstable(_, _, _, _)
insertUnstable(v, key, sorted, x) ==
    IF sorted = << >> THEN << x >>
    ELSE IF compareFn(v, key, sorted[Len(sorted)], x) >= 0
         THEN Append(insertUnstable(v, key,
                                    SubSeq(sorted, 1, Len(sorted) - 1), x),
                     sorted[Len(sorted)])
         ELSE Append(sorted, x)

\* The insertion step of a sort that keeps one element per key value.
insertOnePerKey(v, key, sorted, x) ==
    IF \E i \in 1..Len(sorted) : compareFn(v, key, sorted[i], x) = 0
    THEN sorted
    ELSE insertUnstable(v, key, sorted, x)

\* One step of the stable sort: x goes behind every element that does not
\* compare greater than it.
RECURSIVE insertSorted(_, _, _, _)
insertSorted(v, key, sorted, x) ==
    IF sorted = << >> THEN << x >>
    ELSE IF compareFn(v, key, sorted[Len(sorted)], x) > 0
         THEN Append(insertSorted(v, key,
                                  SubSeq(sorted, 1, Len(sorted) - 1), x),
                     sorted[Len(sorted)])
         ELSE Append(sorted, x)

\* Array.prototype.sort with the comparator: stable (ECMAScript 2019).
RECURSIVE arraySort(_, _, _)
arraySort(v, key, arr) ==
    IF arr = << >> THEN << >>
    ELSE insertSorted(v, key,
                      arraySort(v, key, SubSeq(arr, 1, Len(arr) - 1)),
                      arr[Len(arr)])

\* Array.prototype.filter: the elements the callback keeps, in order.
arrayFilter(v, objs, term, grade, grades, subject, priority) ==
    SelectSeq(objs, LAMBDA obj :
        filterCallback(v, obj, term, grade, grades, subject, priority))

\* The useMemo callback.
filteredAndSortedObjectives(v, objs, term, grade, grades, subject, priority, key) ==
    arraySort(v, key,
              arrayFilter(v, objs, term, grade, grades, subject, priority))

\* [...new Set(objectives.map(obj => obj[field]).filter(Boolean))]: the
\* options a facet dropdown offers besides "all".
uniqueValues(objs, field) ==
    { objs[i][field] : i \in 1..Len(objs) } \ { NULL, EMPTY }

\* --------------------------------------------------------------- the state

VARIABLES
    variant,         \* which of the three components is mounted
    response,        \* what the pending select('*') will resolve to
    pc,              \* "awaiting": fetchObjectives is suspended at its await;
                     \* "done": it has returned; "render": the memo is stale
    objectives,      \* useState<LearningObjective[]>([])
    loading,         \* useState(true)
    searchTerm,      \* useState("")
    gradeFilter,     \* useState("all")          (dropdown, popover)
    selectedGrades,  \* useState<string[]>([])   (multi)
    subjectFilter,   \* useState("all")
    priorityFilter,  \* useState("all")
    sortBy,          \* useState("grade") or useState("subject")
    expandedRows,    \* useState<Set<number>>(new Set())
    consoleErrors,   \* the number of console.error calls so far
    memo,            \* the value useMemo holds: the visible list
    fetchCalls,      \* the number of select('*') requests issued so far
    table,           \* the server's learning_objectives table, row by row
    lastRequest      \* the last command the server handled, with its outcome

vars == << variant, response, pc, objectives, loading, searchTerm, gradeFilter,
           selectedGrades, subjectFilter, priorityFilter, sortBy, expandedRows,
           consoleErrors, memo, fetchCalls, table, lastRequest >>

\* The argument of useState for sortBy.
initialSortBy(v) == IF v = "dropdown" THEN "grade" ELSE "subject"

\* data || []
dataOrEmpty(r) == IF r.kind = "rows" THEN r.data ELSE << >>

\* The client never writes to the table; the client specifications leave the
\* server as it is: no row version recorded, no command handled.
NoRequest == [ cmd |-> "none", uid |-> "null", id |-> 0, allowed |-> FALSE,
               changed |-> FALSE ]

UntouchedTable == [ i \in 1..MaxRows |-> "absent" ]

\* The mounted component: state as constructed, the effect has called
\* fetchObjectives, which is suspended at its await.
Init ==
    /\ variant \in Variants
    /\ response \in Responses
    /\ pc = "awaiting"
    /\ objectives = << >>
    /\ loading = TRUE
    /\ searchTerm = EMPTY
    /\ gradeFilter = ALL
    /\ selectedGrades = << >>
    /\ subjectFilter = ALL
    /\ priorityFilter = ALL
    /\ sortBy = initialSortBy(variant)
    /\ expandedRows = { }
    /\ consoleErrors = 0
    /\ memo = << >>
    /\ fetchCalls = 1
    /\ table = UntouchedTable
    /\ lastRequest = NoRequest

\* useMemo with sortBy missing from its dependency list: a change of the
\* sort key alone leaves the held value as it is.
RerenderSortNotADependency ==
    memo' = IF << objectives', searchTerm', gradeFilter', selectedGrades',
                  subjectFilter', priorityFilter' >>
               = << objectives, searchTerm, gradeFilter, selectedGrades,
                    subjectFilter, priorityFilter >>
            THEN memo
            ELSE filteredAndSortedObjectives(variant', objectives', searchTerm',
                     gradeFilter', selectedGrades', subjectFilter',
                     priorityFilter', sortBy')

\* The render that follows a state change: useMemo runs its callback again
\* because one of its dependencies changed.
Rerender ==
    memo' = filteredAndSortedObjectives(variant', objectives', searchTerm',
                gradeFilter', selectedGrades', subjectFilter', priorityFilter',
                sortBy')

\* The error branch with setLoading(false) left to the other branch.
fetchFailedStillLoading ==
    /\ consoleErrors' = consoleErrors + 1
    /\ objectives' = objectives
    /\ loading' = loading

\* What fetchObjectives does with an error: console.error, no setObjectives.
fetchFailed ==
    /\ consoleErrors' = consoleErrors + 1
    /\ objectives' = objectives
    /\ loading' = FALSE

\* The success branch without its setObjectives call.
fetchSucceededNoSet ==
    /\ consoleErrors' = consoleErrors
    /\ objectives' = objectives
    /\ loading' = FALSE

\* The success branch with setLoading(false) missing.
fetchSucceededStillLoading ==
    /\ consoleErrors' = consoleErrors
    /\ objectives' = dataOrEmpty(response)
    /\ loading' = loading

\* What fetchObjectives does without an error: setObjectives(data || []).
fetchSucceeded ==
    /\ consoleErrors' = consoleErrors
    /\ objectives' = dataOrEmpty(response)
    /\ loading' = FALSE

\* fetchObjectives calling itself again when the select returned an error.
FetchCompleteRetry ==
    /\ pc = "awaiting"
    /\ IF response.kind = "error"
       THEN /\ consoleErrors' = consoleErrors + 1
            /\ UNCHANGED << objectives, loading >>
            /\ fetchCalls' = fetchCalls + 1
            /\ pc' = "awaiting"
       ELSE /\ fetchSucceeded
            /\ fetchCalls' = fetchCalls
            /\ pc' = "done"
    /\ UNCHANGED << table, lastRequest, variant, response, searchTerm,
                    gradeFilter, selectedGrades, subjectFilter, priorityFilter,
                    sortBy, expandedRows >>
    /\ Rerender

\* fetchObjectives resumes after its await and runs to its end.
FetchComplete ==
    /\ pc = "awaiting"
    /\ IF response.kind = "error" THEN fetchFailed ELSE fetchSucceeded
    /\ pc' = "done"
    /\ UNCHANGED << fetchCalls, table, lastRequest, variant, response, searchTerm, gradeFilter, selectedGrades,
                    subjectFilter, priorityFilter, sortBy, expandedRows >>
    /\ Rerender

\* The widgets rendered under the loading screen too.
RenderedWhileLoading == TRUE

\* The widgets exist only once the loading screen is gone.
Rendered == ~loading

\* Input onChange: setSearchTerm(e.target.value); like the Selects'
\* onValueChange it fires when the value changes.
SetSearchTerm ==
    /\ Rendered
    /\ \E s \in SearchInputs \ { searchTerm } : searchTerm' = s
    /\ UNCHANGED << fetchCalls, table, lastRequest, variant, response, pc, objectives, loading, gradeFilter,
                    selectedGrades, subjectFilter, priorityFilter, sortBy,
                    expandedRows, consoleErrors >>
    /\ Rerender

\* grade Select onValueChange: setGradeFilter
SetGradeFilter ==
    /\ Rendered /\ variant # "multi"
    /\ \E g \in ({ ALL } \cup uniqueValues(objectives, "GradeLevel"))
                    \ { gradeFilter } : gradeFilter' = g
    /\ UNCHANGED << fetchCalls, table, lastRequest, variant, response, pc, objectives, loading, searchTerm,
                    selectedGrades, subjectFilter, priorityFilter, sortBy,
                    expandedRows, consoleErrors >>
    /\ Rerender

\* setSubjectFilter wired to a subject Select in every variant.
SetSubjectFilterEveryVariant ==
    /\ Rendered
    /\ \E g \in ({ ALL } \cup uniqueValues(objectives, "Subject"))
                    \ { subjectFilter } : subjectFilter' = g
    /\ UNCHANGED << fetchCalls, table, lastRequest, variant, response, pc, objectives, loading, searchTerm,
                    gradeFilter, selectedGrades, priorityFilter, sortBy,
                    expandedRows, consoleErrors >>
    /\ Rerender

\* subject Select onValueChange: setSubjectFilter
SetSubjectFilter ==
    /\ Rendered /\ variant # "multi"
    /\ \E g \in ({ ALL } \cup uniqueValues(objectives, "Subject"))
                    \ { subjectFilter } : subjectFilter' = g
    /\ UNCHANGED << fetchCalls, table, lastRequest, variant, response, pc, objectives, loading, searchTerm,
                    gradeFilter, selectedGrades, priorityFilter, sortBy,
                    expandedRows, consoleErrors >>
    /\ Rerender

\* priority Select onValueChange: setPriorityFilter; in the popover variant
\* the Select is disabled while grade or subject is "all".
SetPriorityFilter ==
    /\ Rendered /\ variant # "multi"
    /\ variant = "popover" => ~(gradeFilter = ALL \/ subjectFilter = ALL)
    /\ \E g \in ({ ALL } \cup uniqueValues(objectives, "PriorityLevel"))
                    \ { priorityFilter } : priorityFilter' = g
    /\ UNCHANGED << fetchCalls, table, lastRequest, variant, response, pc, objectives, loading, searchTerm,
                    gradeFilter, selectedGrades, subjectFilter, sortBy,
                    expandedRows, consoleErrors >>
    /\ Rerender

\* sort Select onValueChange: setSortBy(value)
SetSortBy ==
    /\ Rendered
    /\ \E k \in SortKeys(variant) \ { sortBy } : sortBy' = k
    /\ UNCHANGED << fetchCalls, table, lastRequest, variant, response, pc, objectives, loading, searchTerm,
                    gradeFilter, selectedGrades, subjectFilter, priorityFilter,
                    expandedRows, consoleErrors >>
    /\ Rerender

\* A radio group: checking a grade unchecks every other grade.
toggledGradesSingle(prev, grade) ==
    IF arrayIncludes(prev, grade) THEN << >> ELSE << grade >>

\* prev.includes(grade) ? prev.filter(g => g !== grade) : [...prev, grade]
toggledGrades(prev, grade) ==
    IF arrayIncludes(prev, grade)
    THEN SelectSeq(prev, LAMBDA g : g # grade)
    ELSE Append(prev, grade)

\* Checkbox onCheckedChange: handleGradeToggle(grade)
handleGradeToggle ==
    /\ Rendered /\ variant = "multi"
    /\ \E i \in 1..Len(availableGrades) :
          selectedGrades' = toggledGrades(selectedGrades, availableGrades[i])
    /\ UNCHANGED << fetchCalls, table, lastRequest, variant, response, pc, objectives, loading, searchTerm,
                    gradeFilter, subjectFilter, priorityFilter, sortBy,
                    expandedRows, consoleErrors >>
    /\ Rerender

\* An accordion: expanding a row collapses every other row.
toggledSetAccordion(set, id) == IF id \in set THEN { } ELSE { id }

\* new Set(expandedRows) with id deleted if present, added if not.
toggledSet(set, id) == IF id \in set THEN set \ { id } ELSE set \cup { id }

\* The onClick handing the card's zero-based position to toggleExpanded
\* instead of objective.id.
toggleExpandedByIndex ==
    /\ Rendered /\ variant # "popover"
    /\ \E i \in 1..Len(memo) : expandedRows' = toggledSet(expandedRows, i - 1)
    /\ UNCHANGED << fetchCalls, table, lastRequest, variant, response, pc,
                    objectives, loading, searchTerm, gradeFilter,
                    selectedGrades, subjectFilter, priorityFilter, sortBy,
                    consoleErrors, memo >>

\* CardHeader onClick of a rendered card: toggleExpanded(objective.id).
\* expandedRows is no dependency of the memo, which keeps its value.
toggleExpanded ==
    /\ Rendered /\ variant # "popover"
    /\ \E i \in 1..Len(memo) : expandedRows' = toggledSet(expandedRows, memo[i].id)
    /\ UNCHANGED << fetchCalls, table, lastRequest, variant, response, pc, objectives, loading, searchTerm,
                    gradeFilter, selectedGrades, subjectFilter, priorityFilter,
                    sortBy, consoleErrors, memo >>

\* The component's return without the early return for loading.
renderNoEarlyReturn(isLoading, list) ==
    [ indicator |-> isLoading,
      cards     |-> [ i \in 1..Len(list) |-> list[i].id ],
      noResults |-> Len(list) = 0 ]

\* What the component returns: the loading indicator alone while loading;
\* otherwise one Card per visible row, in order, and the "no results" Card
\* when filteredAndSortedObjectives.length === 0.
render(isLoading, list) ==
    IF isLoading
    THEN [ indicator |-> TRUE, cards |-> << >>, noResults |-> FALSE ]
    ELSE [ indicator |-> FALSE,
           cards     |-> [ i \in 1..Len(list) |-> list[i].id ],
           noResults |-> Len(list) = 0 ]

\* The early return: while loading, only the loading indicator is rendered.
LoadingShown == render(loading, memo).indicator

\* The Card "No learning objectives found matching your criteria."
NoResultsShown == render(loading, memo).noResults

Next ==
    \/ FetchComplete
    \/ SetSearchTerm
    \/ SetGradeFilter
    \/ SetSubjectFilter
    \/ SetPriorityFilter
    \/ SetSortBy
    \/ handleGradeToggle
    \/ toggleExpanded

Spec == Init /\ [][Next]_vars

\* The select resolves, with rows or with an error: fetchObjectives is resumed.
FairSpec == Spec /\ WF_vars(FetchComplete)

\* ------------------------------------------- the pipeline on its own inputs

\* Values a facet filter state can hold: the sentinel, the empty string and
\* labels, among them labels no loaded row need carry.
GradeInputs ==
    { ALL, EMPTY, Grade6, Grade7, Grade8, << " ", "8", "t", "h" >>,
      << "6", "t", "h", ",", "7", "t", "h", ",", "8", "t", "h" >> }
SubjectInputs  == { ALL, EMPTY, << "M", "a", "t", "h" >>, AlgebraI }
PriorityInputs == { ALL, EMPTY, << "H", "i", "g", "h" >>, << "h", "i", "g", "h" >> }

\* The arrays handleGradeToggle can build: the offered grades, none twice.
GradeSelections ==
    { g \in UNION { [ 1..n -> { Grade6, Grade7, Grade8 } ] : n \in 0..3 } :
        \A i, j \in 1..Len(g) : i # j => g[i] # g[j] }

\* A loaded component whose state changed and has not been rendered again:
\* any rows, any search text, any facet filters, any sort key of the variant.
EngineInit ==
    /\ variant \in Variants
    /\ objectives \in RowSeqs
    /\ response = [ kind |-> "rows", data |-> objectives ]
    /\ pc = "render"
    /\ loading = FALSE
    /\ searchTerm \in SearchInputs
    /\ gradeFilter \in IF variant = "multi" THEN { ALL } ELSE GradeInputs
    /\ selectedGrades \in IF variant = "multi" THEN GradeSelections ELSE { << >> }
    /\ subjectFilter \in SubjectInputs
    /\ priorityFilter \in PriorityInputs
    /\ sortBy \in SortKeys(variant)
    /\ expandedRows = { }
    /\ consoleErrors = 0
    /\ memo = << >>
    /\ fetchCalls = 1
    /\ table = UntouchedTable
    /\ lastRequest = NoRequest

\* The render: useMemo runs its callback on the current state.
Render ==
    /\ pc = "render"
    /\ pc' = "done"
    /\ UNCHANGED << fetchCalls, table, lastRequest, variant, response, objectives, loading, searchTerm,
                    gradeFilter, selectedGrades, subjectFilter, priorityFilter,
                    sortBy, expandedRows, consoleErrors >>
    /\ Rerender

EngineNext == Render

EngineSpec == EngineInit /\ [][EngineNext]_vars

\* ------------------------------------ the table's row-level access policy

\* ALTER TABLE public.learning_objectives ENABLE ROW LEVEL SECURITY
rowLevelSecurity == TRUE

\* The two CREATE POLICY statements: the command each is FOR and its USING
\* expression. Neither has a TO clause (every role) nor a WITH CHECK (the
\* USING expression stands in for it).
policies ==
    { [ name |-> "Allow public read access to learning objectives",
        cmd |-> "SELECT", using |-> "true" ],
      [ name |-> "Allow authenticated users to manage learning objectives",
        cmd |-> "ALL", using |-> "auth.uid() IS NOT NULL" ] }

\* auth.uid() of the requester: "null" without an authenticated identity.
Requesters == { "null", "user-1" }

Commands == { "SELECT", "INSERT", "UPDATE", "DELETE" }

\* The value of a USING expression for a requester.
usingHolds(expr, uid) ==
    CASE expr = "true" -> TRUE
      [] expr = "auth.uid() IS NOT NULL" -> uid # "null"

\* Every policy applying to every command, whatever it is FOR.
policyAppliesToAll(p, cmd) == TRUE

\* A policy applies to the command it is FOR; FOR ALL applies to each.
policyApplies(p, cmd) == p.cmd = "ALL" \/ p.cmd = cmd

\* Row-level security: permissive policies are combined with OR, and with
\* none passing the command touches no row.
rlsAllows(cmd, uid) ==
    IF rowLevelSecurity
    THEN \E p \in policies : policyApplies(p, cmd) /\ usingHolds(p.using, uid)
    ELSE TRUE

\* What a command that is let through does to one row of the table.
effect(cmd, row) ==
    CASE cmd = "INSERT" -> IF row = "absent" THEN "v1" ELSE row
      [] cmd = "UPDATE" -> IF row = "v1" THEN "v2"
                           ELSE IF row = "v2" THEN "v1" ELSE row
      [] cmd = "DELETE" -> "absent"
      [] cmd = "SELECT" -> row

clientVars == << variant, response, pc, objectives, loading, searchTerm,
                 gradeFilter, selectedGrades, subjectFilter, priorityFilter,
                 sortBy, expandedRows, consoleErrors, memo, fetchCalls >>

\* The server handles one command of one requester on one row.
HandleRequest(cmd, uid, id) ==
    LET allowed == rlsAllows(cmd, uid)
        after   == IF allowed
                   THEN [ table EXCEPT ![id] = effect(cmd, table[id]) ]
                   ELSE table
    IN  /\ table' = after
        /\ lastRequest' = [ cmd |-> cmd, uid |-> uid, id |-> id,
                            allowed |-> allowed, changed |-> after # table ]
        /\ UNCHANGED clientVars

Select == \E uid \in Requesters, id \in 1..MaxRows : HandleRequest("SELECT", uid, id)

Insert == \E uid \in Requesters, id \in 1..MaxRows : HandleRequest("INSERT", uid, id)

Update == \E uid \in Requesters, id \in 1..MaxRows : HandleRequest("UPDATE", uid, id)

Delete == \E uid \in Requesters, id \in 1..MaxRows : HandleRequest("DELETE", uid, id)

\* The server on its own: an empty table, a client that has just mounted.
PolicyInit ==
    /\ variant = "multi"
    /\ response = [ kind |-> "nodata", data |-> << >> ]
    /\ pc = "awaiting"
    /\ objectives = << >>
    /\ loading = TRUE
    /\ searchTerm = EMPTY
    /\ gradeFilter = ALL
    /\ selectedGrades = << >>
    /\ subjectFilter = ALL
    /\ priorityFilter = ALL
    /\ sortBy = initialSortBy(variant)
    /\ expandedRows = { }
    /\ consoleErrors = 0
    /\ memo = << >>
    /\ fetchCalls = 1
    /\ table = UntouchedTable
    /\ lastRequest = NoRequest

PolicyNext == Select \/ Insert \/ Update \/ Delete

PolicySpec == PolicyInit /\ [][PolicyNext]_vars

\* ============================================================== properties

\* The rows of a list, as a set.
RowsOf(list) == { list[i] : i \in 1..Len(list) }

\* Two characters that are the same letter, whatever their case.
SameLetter(c, d) ==
    c = d \/ \E i \in 1..26 : { c, d } = { UpperCase[i], LowerCase[i] }

\* t occurs in s at some offset, case ignored.
OccursIgnoringCase(s, t) ==
    \E off \in 0..(Len(s) - Len(t)) :
        \A j \in 1..Len(t) : SameLetter(s[off + j], t[j])

\* The search constraint, as the specification words it.
SearchMatches(r, s) ==
    \/ s = << >>
    \/ \E f \in { r.Objective, r.Standard, r.PlainLanguage } :
          f # NULL /\ OccursIgnoringCase(f, s)

\* A single-select facet: unconstrained, or the stored label is the value.
FacetMatches(label, filter) == filter \in { ALL, EMPTY } \/ label = filter

\* The grade a row has for filtering where Algebra I is remapped.
EffectiveGrade(r) == IF r.Subject = AlgebraI THEN Grade8 ELSE r.GradeLevel

\* The grade constraint of the mounted variant.
GradeMatches(r) ==
    IF variant = "multi"
    THEN selectedGrades = << >> \/ EffectiveGrade(r) \in RowsOf(selectedGrades)
    ELSE FacetMatches(r.GradeLevel, gradeFilter)

\* The memo holds the derivation of the current state.
Derived == pc # "render"

\* C1: in every variant the visible set is exactly the intersection of the
\* loaded rows matching the search, those matching the grade facet, those
\* matching the subject facet and those matching the priority facet.
C1_VisibleIsIntersection ==
    Derived =>
        RowsOf(memo) =
            { r \in RowsOf(objectives) : SearchMatches(r, searchTerm) }
              \cap { r \in RowsOf(objectives) : GradeMatches(r) }
              \cap { r \in RowsOf(objectives) :
                        FacetMatches(r.Subject, subjectFilter) }
              \cap { r \in RowsOf(objectives) :
                        FacetMatches(r.PriorityLevel, priorityFilter) }

\* Every constraint is active, one row passes them all and another row fails.
C1_Witness ==
    /\ pc = "done" /\ variant = "dropdown"
    /\ searchTerm # EMPTY
    /\ gradeFilter \notin { ALL, EMPTY }
    /\ subjectFilter \notin { ALL, EMPTY }
    /\ priorityFilter \notin { ALL, EMPTY }
    /\ Len(memo) = 1 /\ Len(objectives) = 2
    /\ \E r \in RowsOf(objectives) \ RowsOf(memo) :
          SearchMatches(r, searchTerm) /\ GradeMatches(r)

\* No facet constrains the visible set.
Unconstrained ==
    /\ IF variant = "multi" THEN selectedGrades = << >>
                            ELSE gradeFilter \in { ALL, EMPTY }
    /\ subjectFilter \in { ALL, EMPTY }
    /\ priorityFilter \in { ALL, EMPTY }

\* C2: with every facet unconstrained, an empty search text shows every
\* loaded row; a non-empty one shows exactly the rows that have it, case
\* ignored, inside Objective, Standard or Plain Language, an absent field
\* never matching.
C2_SearchIsSubstringMatch ==
    (Derived /\ Unconstrained) =>
        /\ searchTerm = << >> => RowsOf(memo) = RowsOf(objectives)
        /\ searchTerm # << >> =>
              \A r \in RowsOf(objectives) :
                  r \in RowsOf(memo) <=>
                      \E f \in { r.Objective, r.Standard, r.PlainLanguage } :
                          f # NULL /\ OccursIgnoringCase(f, searchTerm)

\* A search text with an upper-case letter keeps a row whose text differs
\* from it in case and drops a row that has only absent fields.
C2_Witness ==
    /\ pc = "done" /\ Unconstrained
    /\ searchTerm = << "a", "D" >>
    /\ \E r \in RowsOf(memo) : r.Objective = << "A", "d", "d" >>
    /\ \E r \in RowsOf(objectives) \ RowsOf(memo) :
          r.Objective = NULL /\ r.Standard = NULL /\ r.PlainLanguage = NULL

\* C3: in the dropdown variants each facet keeps a row iff its filter is
\* "all" or "", or the stored label equals the filter value exactly; so with
\* nothing else constraining, the visible rows are exactly those rows.
C3_SingleSelectExactMatch ==
    (Derived /\ variant \in { "dropdown", "popover" } /\ searchTerm = << >>) =>
        /\ (subjectFilter \in { ALL, EMPTY } /\ priorityFilter \in { ALL, EMPTY })
              => RowsOf(memo) = { r \in RowsOf(objectives) :
                      gradeFilter \in { ALL, EMPTY } \/ r.GradeLevel = gradeFilter }
        /\ (gradeFilter \in { ALL, EMPTY } /\ priorityFilter \in { ALL, EMPTY })
              => RowsOf(memo) = { r \in RowsOf(objectives) :
                      subjectFilter \in { ALL, EMPTY } \/ r.Subject = subjectFilter }
        /\ (gradeFilter \in { ALL, EMPTY } /\ subjectFilter \in { ALL, EMPTY })
              => RowsOf(memo) = { r \in RowsOf(objectives) :
                      priorityFilter \in { ALL, EMPTY }
                          \/ r.PriorityLevel = priorityFilter }

\* Rows Math/7th/High and ELA/6th/Low, empty search, subjectFilter = "Math":
\* the visible list is the first row alone.
C3_Witness ==
    /\ pc = "done" /\ variant = "dropdown" /\ searchTerm = << >>
    /\ gradeFilter = ALL /\ priorityFilter = ALL
    /\ subjectFilter = << "M", "a", "t", "h" >>
    /\ Len(objectives) = 2
    /\ objectives[1].Subject = << "M", "a", "t", "h" >>
    /\ objectives[1].GradeLevel = Grade7
    /\ objectives[1].PriorityLevel = << "H", "i", "g", "h" >>
    /\ objectives[2].Subject = << "E", "L", "A" >>
    /\ objectives[2].GradeLevel = Grade6
    /\ objectives[2].PriorityLevel = << "L", "o", "w" >>
    /\ memo = << objectives[1] >>

\* The row passes every constraint but the grade facet.
PassesOtherThanGrade(r) ==
    /\ SearchMatches(r, searchTerm)
    /\ FacetMatches(r.Subject, subjectFilter)
    /\ FacetMatches(r.PriorityLevel, priorityFilter)

\* C4: in the multi-select variant a row passes the grade facet iff no
\* grade is selected or its effective grade (the stored one, "8th" for
\* Algebra I) is one of the selected grades.
C4_MultiSelectGrade ==
    (Derived /\ variant = "multi") =>
        \A r \in RowsOf(objectives) :
            PassesOtherThanGrade(r) =>
                (r \in RowsOf(memo) <=>
                    \/ Len(selectedGrades) = 0
                    \/ \E i \in 1..Len(selectedGrades) :
                          selectedGrades[i] = EffectiveGrade(r))

\* Two grades are selected; one row has one of them and is visible, the
\* other row has neither and is not.
C4_Witness ==
    /\ pc = "done" /\ variant = "multi"
    /\ Len(selectedGrades) = 2 /\ Len(objectives) = 2 /\ Len(memo) = 1
    /\ \A r \in RowsOf(objectives) : PassesOtherThanGrade(r)

\* C5: in the remap variant a row whose Subject is "Algebra I" counts as
\* grade "8th" whatever its stored grade: under a non-empty selection it
\* passes the grade facet iff "8th" is selected.
C5_AlgebraIsEighthGrade ==
    (Derived /\ variant = "multi" /\ selectedGrades # << >>) =>
        \A r \in RowsOf(objectives) :
            (r.Subject = AlgebraI /\ PassesOtherThanGrade(r)) =>
                (r \in RowsOf(memo) <=> Grade8 \in RowsOf(selectedGrades))

\* An Algebra I row stored as "7th" is visible under selectedGrades = ["8th"].
C5_Witness ==
    /\ pc = "done" /\ variant = "multi"
    /\ selectedGrades = << Grade8 >>
    /\ \E r \in RowsOf(memo) : r.Subject = AlgebraI /\ r.GradeLevel = Grade7

\* The field the active sort key orders by, a missing value read as "".
SortField(r) ==
    CASE sortBy = "grade"    -> OrEmpty(r.GradeLevel)
      [] sortBy = "subject"  -> OrEmpty(r.Subject)
      [] sortBy = "priority" -> OrEmpty(r.PriorityLevel)

\* The list is in ascending order of the active sort key's field.
Ascending(list) ==
    \A i, j \in 1..Len(list) :
        i < j => localeCompare(SortField(list[i]), SortField(list[j])) <= 0

\* The place of a row in the loaded sequence.
LoadedIndex(r) == CHOOSE k \in 1..Len(objectives) : objectives[k] = r

\* C6: the visible list is ascending by the field of the active sort key:
\* of two visible rows the earlier one never compares greater.
C6_VisibleIsAscending == Derived => Ascending(memo)

\* The sort moved a row: the visible order is not the loaded order.
C6_Witness ==
    /\ pc = "done" /\ Len(memo) = 2
    /\ LoadedIndex(memo[1]) > LoadedIndex(memo[2])
    /\ localeCompare(SortField(memo[1]), SortField(memo[2])) < 0

\* C7: the sort is stable and has no second key: visible rows whose sort
\* fields compare equal keep the order they have in the loaded sequence.
C7_SortIsStable ==
    Derived =>
        \A i, j \in 1..Len(memo) :
            (i < j /\ localeCompare(SortField(memo[i]), SortField(memo[j])) = 0)
                => LoadedIndex(memo[i]) < LoadedIndex(memo[j])

\* Two visible rows tie on the sort key and differ in another sortable field
\* in a way a second key would have reversed.
C7_Witness ==
    /\ pc = "done" /\ Len(memo) = 2 /\ sortBy = "priority"
    /\ localeCompare(SortField(memo[1]), SortField(memo[2])) = 0
    /\ localeCompare(OrEmpty(memo[1].Subject), OrEmpty(memo[2].Subject)) > 0

\* The sort key a variant starts with.
DefaultKey == IF variant = "dropdown" THEN "grade" ELSE "subject"

\* Search text, facet filters and sort key as the component constructs them.
DefaultInputs ==
    /\ searchTerm = << >>
    /\ gradeFilter = ALL /\ selectedGrades = << >>
    /\ subjectFilter = ALL /\ priorityFilter = ALL
    /\ sortBy = DefaultKey

\* C8: the component starts with the default inputs, and under them the
\* visible list holds every loaded row exactly once, in ascending order of
\* the default key (grade in the dropdown variant, subject in the others).
C8_DefaultShowsAllSorted ==
    /\ pc = "awaiting" => DefaultInputs
    /\ DefaultInputs =>
          /\ Len(memo) = Len(objectives)
          /\ RowsOf(memo) = RowsOf(objectives)
          /\ Ascending(memo)

\* The fetch has delivered two rows, one of them without any searchable
\* text, nothing has been typed or chosen, and the list shows both, reordered.
C8_Witness ==
    /\ pc = "done" /\ DefaultInputs /\ Len(objectives) = 2 /\ Len(memo) = 2
    /\ memo # objectives
    /\ \E r \in RowsOf(memo) :
          r.Objective = NULL /\ r.Standard = NULL /\ r.PlainLanguage = NULL

\* C9: a failed fetch is only logged: the loader returns, no row is loaded,
\* the loading flag is cleared, no row is visible and the "no results"
\* message is shown, as for an empty table.
C9_FetchFailureShowsNoResults ==
    (response.kind = "error" /\ pc = "done") =>
        /\ consoleErrors = 1
        /\ objectives = << >>
        /\ loading = FALSE
        /\ Len(memo) = 0
        /\ NoResultsShown /\ ~LoadingShown

\* The fetch failed and the user has typed a search text since.
C9_Witness ==
    /\ response.kind = "error" /\ pc = "done"
    /\ searchTerm # << >> /\ NoResultsShown

\* C10: while the fetch is pending no row is loaded and the loading flag is
\* set; once it has succeeded the loaded rows are the returned rows in the
\* returned order (none when no data came back) and the flag is cleared:
\* both change in the one completion step.
C10_FetchSuccessLoadsRows ==
    response.kind # "error" =>
        /\ pc = "awaiting" => (objectives = << >> /\ loading = TRUE)
        /\ pc = "done" =>
              /\ objectives = (IF response.kind = "rows" THEN response.data
                                                         ELSE << >>)
              /\ loading = FALSE
              /\ consoleErrors = 0

\* Two rows came back in an order that is not the sorted one and are held
\* in the order they came.
C10_Witness ==
    /\ pc = "done" /\ response.kind = "rows" /\ Len(response.data) = 2
    /\ objectives = response.data /\ memo # objectives /\ Len(memo) = 2

\* C11: the loading flag starts true, becomes false whether the fetch
\* succeeds or fails, and once false is never true again.
C11_LoadingClearsForGood ==
    /\ loading = TRUE
    /\ <>(loading = FALSE)
    /\ [][loading = FALSE => loading' = FALSE]_vars

\* The flag is clear after a failed fetch and the user has changed the sort.
C11_Witness ==
    /\ loading = FALSE /\ response.kind = "error" /\ sortBy # DefaultKey

\* C12: one fetch is issued, at startup, and never another, not even after a
\* failure; the loaded rows are assigned by its completion only: once the
\* fetch is over nothing creates, changes, drops or reorders a loaded row.
C12_FetchOnceRowsFixed ==
    [][ /\ fetchCalls = 1 /\ fetchCalls' = 1
        /\ pc = "done" => (pc' = "done" /\ objectives' = objectives) ]_vars

\* Rows are loaded and the user has searched, sorted and expanded since.
C12_Witness ==
    /\ pc = "done" /\ fetchCalls = 1 /\ Len(objectives) = 2
    /\ searchTerm # << >> /\ sortBy # DefaultKey /\ expandedRows # { }

\* C13: the "no results" message is displayed iff the loading flag is false
\* and no row is visible; while the flag is true the loading indicator is
\* shown and neither the message nor any row.
C13_NoResultsIffLoadedAndEmpty ==
    /\ NoResultsShown <=> (loading = FALSE /\ Len(memo) = 0)
    /\ loading = TRUE =>
          /\ LoadingShown
          /\ render(loading, memo).cards = << >>
          /\ ~NoResultsShown
    /\ loading = FALSE =>
          /\ ~LoadingShown
          /\ Len(render(loading, memo).cards) = Len(memo)

\* Rows are loaded, the filters leave none of them visible, and the message
\* is shown.
C13_Witness ==
    /\ loading = FALSE /\ Len(objectives) = 2 /\ Len(memo) = 0
    /\ NoResultsShown /\ response.kind = "rows"

\* C14: the visible list is a function of the loaded rows, the search text,
\* the facet filters and the sort key alone: whatever the earlier inputs
\* were and whichever rows are expanded, the list held is the derivation of
\* the current inputs, so equal inputs always give the same rows in the same
\* order.
C14_VisibleIsFunctionOfInputs ==
    memo = filteredAndSortedObjectives(variant, objectives, searchTerm,
               gradeFilter, selectedGrades, subjectFilter, priorityFilter,
               sortBy)

\* After the sort key was changed and a row expanded, the list shows two
\* rows in an order other than the loaded one.
C14_Witness ==
    /\ pc = "done" /\ sortBy # DefaultKey /\ expandedRows # { }
    /\ searchTerm = << >> /\ Len(memo) = 2 /\ memo # objectives

\* The ids whose expanded state differs between this state and the next.
Flipped == (expandedRows' \ expandedRows) \cup (expandedRows \ expandedRows')

\* C15: toggleExpanded(id) flips the expanded state of row id alone: one id,
\* that of a rendered card, changes its membership, every other id keeps
\* its own, and rows, search text, filters and sort key stay as they are.
C15_ToggleFlipsOneRow ==
    [][ expandedRows' # expandedRows =>
          /\ Cardinality(Flipped) = 1
          /\ \E i \in 1..Len(memo) : Flipped = { memo[i].id }
          /\ UNCHANGED << objectives, searchTerm, gradeFilter, selectedGrades,
                          subjectFilter, priorityFilter, sortBy, memo >> ]_vars

\* Both rows of the dropdown variant are expanded: the second toggle left
\* the first row expanded.
C15_Witness ==
    /\ variant = "dropdown" /\ Cardinality(expandedRows) = 2

\* C16: whatever the fetch delivered and whatever was searched, filtered,
\* sorted and toggled since, every expanded id is the id of a loaded row.
C16_ExpandedAreLoaded ==
    expandedRows \subseteq { objectives[i].id : i \in 1..Len(objectives) }

\* A row was expanded and then filtered out of the visible list: its id
\* stays in the expanded set.
C16_Witness ==
    /\ expandedRows # { }
    /\ \E id \in expandedRows : \A i \in 1..Len(memo) : memo[i].id # id

\* C17: a SELECT is let through for every requester, authenticated or not;
\* an INSERT, UPDATE or DELETE is let through only for a requester with an
\* authenticated identity, so a requester without one never changes the
\* table.
C17_PublicReadAuthenticatedWrite ==
    lastRequest.cmd # "none" =>
        /\ lastRequest.cmd = "SELECT" => lastRequest.allowed
        /\ lastRequest.cmd \in { "INSERT", "UPDATE", "DELETE" } =>
              (lastRequest.allowed <=> lastRequest.uid # "null")
        /\ lastRequest.uid = "null" => ~lastRequest.changed

\* A requester without identity asked to delete a row that exists and was
\* refused: the row is still there.
C17_Witness ==
    /\ lastRequest.cmd = "DELETE" /\ lastRequest.uid = "null"
    /\ ~lastRequest.allowed
    /\ table[lastRequest.id] # "absent"

\* The user can pick sort key k now: the sort Select is rendered and has an
\* item for k.
CanSelect(k) == Rendered /\ k \in SortKeys(variant)

\* C18 as claimed: in every variant the sort key is one of grade, subject
\* and priority, the user can select each of the three, and the visible rows
\* are ordered by the selected key's field.
C18_EveryKeyInEveryVariant ==
    /\ sortBy \in { "grade", "subject", "priority" }
    /\ Rendered => \A k \in { "grade", "subject", "priority" } : CanSelect(k)
    /\ Ascending(memo)

\* C18, amended: the sort key is always one the variant offers, the three
\* keys in the dropdown variant and subject or priority alone in the
\* multi-select and popover variants, where grade is never the key; the
\* user can select each offered key, and the visible rows are ordered by the
\* selected key's field.
C18_OfferedKeysPerVariant ==
    /\ sortBy \in { "grade", "subject", "priority" }
    /\ variant # "dropdown" => sortBy # "grade"
    /\ Rendered =>
          /\ \A k \in { "subject", "priority" } : CanSelect(k)
          /\ CanSelect("grade") <=> variant = "dropdown"
    /\ Ascending(memo)

\* The multi-select variant sorted by priority, the other key it offers: the
\* two visible rows are not in the loaded order.
C18_Witness ==
    /\ variant = "multi" /\ sortBy = "priority" /\ Len(memo) = 2
    /\ memo # objectives /\ searchTerm = << >> /\ expandedRows = { }

\* C19: in the popover variant, whose priority Select is disabled while the
\* grade filter or the subject filter is "all", a constrained priority
\* filter implies a constrained grade filter and a constrained subject
\* filter: no priority constraint is applied while its Select is disabled.
C19_PriorityNeedsGradeAndSubject ==
    (variant = "popover" /\ priorityFilter # ALL) =>
        (gradeFilter # ALL /\ subjectFilter # ALL)

\* A stored grade label that names an offered grade without being one: a
\* composite such as "6th,7th,8th", or an offered grade with whitespace
\* around it.
IrregularGrade(g) ==
    /\ g \notin RowsOf(availableGrades)
    /\ \E i \in 1..Len(availableGrades) : includes(g, availableGrades[i])

\* C20: in the multi-select variant a row whose stored Grade Level is a
\* composite label or an offered grade with extra whitespace, and whose
\* Subject is not "Algebra I", is visible only when no grade is selected
\* (and then iff it passes the other constraints): every non-empty selection
\* excludes it, also one containing a grade its label names.
C20_IrregularGradeOnlyUnselected ==
    (Derived /\ variant = "multi") =>
        \A r \in RowsOf(objectives) :
            (IrregularGrade(r.GradeLevel) /\ r.Subject # AlgebraI) =>
                (r \in RowsOf(memo) <=>
                    (selectedGrades = << >> /\ PassesOtherThanGrade(r)))

\* "6th" and "8th" are selected; the "6th,7th,8th" row passes every other
\* constraint and is not visible, the " 8th" row likewise.
C20_Witness ==
    /\ pc = "done" /\ variant = "multi"
    /\ RowsOf(selectedGrades) = { Grade6, Grade8 }
    /\ Len(objectives) = 2 /\ memo = << >>
    /\ \A r \in RowsOf(objectives) :
          /\ IrregularGrade(r.GradeLevel) /\ r.Subject # AlgebraI
          /\ PassesOtherThanGrade(r)
    /\ \E r \in RowsOf(objectives) : includes(r.GradeLevel, << "," >>)
    /\ \E r \in RowsOf(objectives) : includes(r.GradeLevel, << " " >>)

\* C21: in the multi-select variant, which renders no subject Select and no
\* priority Select, the subject filter and the priority filter are "all" in
\* every reachable state, so the visible set is the loaded rows that match
\* the search text and the selected grades, whatever their Subject and
\* Priority Level.
C21_MultiSubjectPriorityStayAll ==
    variant = "multi" =>
        /\ subjectFilter = ALL
        /\ priorityFilter = ALL
        /\ RowsOf(memo) =
              { r \in RowsOf(objectives) :
                  SearchMatches(r, searchTerm) /\ GradeMatches(r) }

\* The multi-select variant after a search text was typed, grades were
\* toggled and the sort key was changed: the two visible rows differ in
\* Subject and in Priority Level.
C21_Witness ==
    /\ variant = "multi" /\ ~loading
    /\ searchTerm # << >> /\ selectedGrades # << >> /\ sortBy = "priority"
    /\ Len(memo) = 2
    /\ memo[1].Subject # memo[2].Subject
    /\ memo[1].PriorityLevel # memo[2].PriorityLevel

\* What the user can change: the search text, the facet filters, the sort
\* key and the expanded set.
userInputs == << searchTerm, gradeFilter, selectedGrades, subjectFilter,
                 priorityFilter, sortBy, expandedRows >>

\* C22: while loading is true no user input is accepted: in every state
\* with loading = true the search text is empty, every facet filter is
\* unconstrained, the sort key is the initial one, the expanded set is empty
\* and no row is loaded; every step that changes a user input starts and
\* ends with loading = false, the fetch being over.
C22_NoInputWhileLoading ==
    /\ [](loading =>
            /\ DefaultInputs
            /\ expandedRows = { }
            /\ objectives = << >>
            /\ pc = "awaiting")
    /\ [][ userInputs' # userInputs =>
              (~loading /\ ~loading' /\ pc = "done") ]_vars

\* The loading screen is up while the select is about to resolve with two
\* rows: nothing is loaded and every input is as constructed.
C22_Witness ==
    /\ loading /\ pc = "awaiting" /\ fetchCalls = 1
    /\ response.kind = "rows" /\ Len(response.data) = 2
    /\ objectives = << >> /\ memo = << >> /\ LoadingShown

\* How often x occurs in list.
Occurrences(list, x) == Cardinality({ i \in 1..Len(list) : list[i] = x })

\* Two lists holding the same rows the same number of times.
IsPermutation(a, b) ==
    /\ Len(a) = Len(b)
    /\ \A x \in RowsOf(a) \cup RowsOf(b) : Occurrences(a, x) = Occurrences(b, x)

\* C23: changing only the sort key never changes which rows are visible:
\* with the rows, the search text and the facet filters as they are, the
\* list under every sort key of the variant is a permutation of the visible
\* list, a step that changes the sort key leaves a permutation of the list
\* it found, and the visible list holds each loaded row at most once and no
\* row that is not loaded.
C23_SortKeepsVisibleRows ==
    /\ [](/\ \A k \in SortKeys(variant) :
               IsPermutation(filteredAndSortedObjectives(variant, objectives,
                                 searchTerm, gradeFilter, selectedGrades,
                                 subjectFilter, priorityFilter, k),
                             memo)
          /\ \A i, j \in 1..Len(memo) : memo[i] = memo[j] => i = j
          /\ RowsOf(memo) \subseteq RowsOf(objectives))
    /\ [][ sortBy' # sortBy => IsPermutation(memo', memo) ]_vars

\* Two rows match the search text and the sort key was changed: under the
\* initial key the list was in the loaded order, under the selected key it
\* holds the same two rows the other way round.
C23_Witness ==
    /\ pc = "done" /\ sortBy # DefaultKey /\ searchTerm # << >>
    /\ Len(objectives) = 2
    /\ memo = << objectives[2], objectives[1] >>
    /\ filteredAndSortedObjectives(variant, objectives, searchTerm,
           gradeFilter, selectedGrades, subjectFilter, priorityFilter,
           DefaultKey) = objectives

\* The grades whose membership differs between this state and the next.
GradesFlipped ==
    (RowsOf(selectedGrades') \ RowsOf(selectedGrades))
      \cup (RowsOf(selectedGrades) \ RowsOf(selectedGrades'))

\* C24: whatever checkboxes were toggled, selectedGrades holds no grade
\* twice and only offered grades ("6th", "7th", "8th"); toggling a grade
\* twice in a row gives back the same selected set; and a step that changes
\* selectedGrades changes the membership of exactly one offered grade,
\* every other grade staying in or out as it was.
C24_GradeToggleIsSetToggle ==
    /\ [](/\ \A i, j \in 1..Len(selectedGrades) :
               selectedGrades[i] = selectedGrades[j] => i = j
          /\ RowsOf(selectedGrades) \subseteq { Grade6, Grade7, Grade8 }
          /\ \A i \in 1..Len(availableGrades) :
               RowsOf(toggledGrades(toggledGrades(selectedGrades,
                                                  availableGrades[i]),
                                    availableGrades[i]))
                 = RowsOf(selectedGrades))
    /\ [][ selectedGrades' # selectedGrades =>
              /\ Cardinality(GradesFlipped) = 1
              /\ GradesFlipped \subseteq RowsOf(availableGrades) ]_vars

\* "8th" was checked before "6th" and "7th" is unchecked: the selection is
\* not in the offered order, and of the two loaded rows one is visible.
C24_Witness ==
    /\ variant = "multi" /\ pc = "done"
    /\ selectedGrades = << Grade8, Grade6 >>
    /\ Len(objectives) = 2 /\ Len(memo) = 1

====
